---- MODULE Spec2Model ----
(***************************************************************************)
(* Session engine of the FOMC argument coding interface                    *)
(* (coding_interface.py): the Streamlit session state, the handlers of the *)
(* buttons that change it, the resume validator and the CSV export.        *)
(*                                                                         *)
(* Python values are modelled as follows: a str is a TLA+ string, an int   *)
(* an integer, None and the pandas missing value NaN are the two reserved  *)
(* strings None and NaN, a dict is a record (a function on its keys), a    *)
(* list a sequence, a set a set.  A DataFrame is a record                  *)
(* [columns, rows] whose rows are dicts on the columns.                    *)
(***************************************************************************)
EXTENDS Integers, Sequences, FiniteSets, TLC

VARIABLES
    items,              \* coding_df: the coding_id column of the loaded item table
    current_index,      \* st.session_state.current_index
    results,            \* st.session_state.results (list of dicts)
    coded_ids,          \* st.session_state.coded_ids
    widget_version,     \* st.session_state.widget_version
    locked_coder_name,  \* st.session_state.locked_coder_name
    locked_variable,    \* st.session_state.locked_variable
    message,            \* what the last handler reported (st.error / st.warning / st.success)
    download,           \* the file saved from the download button: <<>> or <<csv>>
    snapshot,           \* history: the results the downloaded file was made from
    loaded_df,          \* history: <<resume_df>> right after an accepted Load Session, else <<>>
    clicked             \* history: the button whose handler ran last

session == <<current_index, results, coded_ids, widget_version,
             locked_coder_name, locked_variable>>

vars == <<items, current_index, results, coded_ids, widget_version,
          locked_coder_name, locked_variable, message, download, snapshot,
          loaded_df, clicked>>

-----------------------------------------------------------------------------
(* Values *)

None == "<None>"
NaN == "<NaN>"

OtherNoGoodMatch == "Other / No Good Match"

\* Largest form epoch explored (widget_version is unbounded in the code).
MaxEpoch == 1
\* Largest number of rows of an uploaded resume table.
MaxRows == 2

Get(d, key, default) == IF key \in DOMAIN d THEN d[key] ELSE default

Range(s) == {s[i] : i \in 1..Len(s)}

RECURSIVE Join(_)
Join(names) ==
    IF Len(names) = 0 THEN ""
    ELSE IF Len(names) = 1 THEN names[1]
    ELSE names[1] \o "; " \o Join(Tail(names))

RECURSIVE SelectRows(_, _)
SelectRows(rows, ids) ==
    IF rows = <<>> THEN <<>>
    ELSE IF Head(rows).coding_id \in ids
         THEN <<Head(rows)>> \o SelectRows(Tail(rows), ids)
         ELSE SelectRows(Tail(rows), ids)

-----------------------------------------------------------------------------
(* validate_resume_csv *)

\* Mutant: the score column is not required.
required_cols_without_score == {"coding_id", "coder_name"}

required_cols == {"coding_id", "coder_name", "score"}

\* Mutant: the warning counts the rows with an unmatched coding_id.
validate_resume_csv_counts_rows(resume_df, coding_df) ==
    IF ~(required_cols \subseteq resume_df.columns)
    THEN [is_valid |-> FALSE, kind |-> "MissingColumns",
          n |-> Cardinality(required_cols \ resume_df.columns), matching_ids |-> {}]
    ELSE LET resume_ids == {resume_df.rows[i].coding_id : i \in 1..Len(resume_df.rows)}
             coding_ids == Range(coding_df)
             matching_ids == resume_ids \cap coding_ids
             unmatched_ids == resume_ids \ coding_ids
         IN  IF Cardinality(matching_ids) = 0
             THEN [is_valid |-> FALSE, kind |-> "NoMatch", n |-> 0, matching_ids |-> {}]
             ELSE IF Cardinality(unmatched_ids) > 0
             THEN [is_valid |-> TRUE, kind |-> "Warning",
                   n |-> Cardinality({i \in 1..Len(resume_df.rows) :
                                        resume_df.rows[i].coding_id \in unmatched_ids}),
                   matching_ids |-> matching_ids]
             ELSE [is_valid |-> TRUE, kind |-> "Validated",
                   n |-> Cardinality(matching_ids), matching_ids |-> matching_ids]

validate_resume_csv(resume_df, coding_df) ==
    IF ~(required_cols \subseteq resume_df.columns)
    THEN [is_valid |-> FALSE, kind |-> "MissingColumns",
          n |-> Cardinality(required_cols \ resume_df.columns), matching_ids |-> {}]
    ELSE LET resume_ids == {resume_df.rows[i].coding_id : i \in 1..Len(resume_df.rows)}
             coding_ids == Range(coding_df)
             matching_ids == resume_ids \cap coding_ids
             unmatched_ids == resume_ids \ coding_ids
         IN  IF Cardinality(matching_ids) = 0
             THEN [is_valid |-> FALSE, kind |-> "NoMatch", n |-> 0, matching_ids |-> {}]
             ELSE IF Cardinality(unmatched_ids) > 0
             THEN [is_valid |-> TRUE, kind |-> "Warning",
                   n |-> Cardinality(unmatched_ids), matching_ids |-> matching_ids]
             ELSE [is_valid |-> TRUE, kind |-> "Validated",
                   n |-> Cardinality(matching_ids), matching_ids |-> matching_ids]

-----------------------------------------------------------------------------
(* Sidebar: the identity values a run of the script works with *)

SidebarCoderName(typed_name) ==
    IF locked_coder_name # None THEN locked_coder_name ELSE typed_name

SidebarVariable(typed_variable) ==
    IF locked_variable # None THEN locked_variable ELSE typed_variable

NoMessage == [kind |-> "none", n |-> 0, loaded |-> 0]

-----------------------------------------------------------------------------
(* Form: the widget values of the coding form, and the dict Save builds *)

FormDataCategories(form) ==
    IF form.cites_data = "Yes"
    THEN form.checked \o (IF form.other_checked THEN <<OtherNoGoodMatch>> ELSE <<>>)
    ELSE <<>>

FormDataCategoryOther(form) ==
    IF form.cites_data = "Yes" /\ form.other_checked THEN form.other_text ELSE None

FormInformationType(form) ==
    IF form.cites_data = "Yes" THEN form.information_type ELSE None

FormArgumentCategoryOther(form) ==
    IF form.argument_category = OtherNoGoodMatch THEN form.argument_other_text ELSE None

BuildResult(coding_id, form, now) ==
    [coding_id |-> coding_id,
     coder_name |-> locked_coder_name',
     variable |-> locked_variable',
     score |-> form.score,
     cites_data |-> form.cites_data,
     data_categories |-> IF FormDataCategories(form) # <<>>
                         THEN Join(FormDataCategories(form)) ELSE None,
     data_category_other |-> FormDataCategoryOther(form),
     information_type |-> FormInformationType(form),
     argument_category |-> form.argument_category,
     argument_category_other |-> FormArgumentCategoryOther(form),
     notes |-> form.notes,
     coded_at |-> now]

\* The index of the first record of coding_id in rs, 0 if there is none.
ExistingIdx(rs, coding_id) ==
    IF \E i \in 1..Len(rs) : rs[i].coding_id = coding_id
    THEN CHOOSE i \in 1..Len(rs) :
            /\ rs[i].coding_id = coding_id
            /\ \A j \in 1..(i - 1) : rs[j].coding_id # coding_id
    ELSE 0

\* Mutant: a recommit merges field by field; a field the new record leaves
\* None keeps the old record's value.
MergeOnRecommit(rs, result) ==
    IF ExistingIdx(rs, result.coding_id) # 0
    THEN LET old == rs[ExistingIdx(rs, result.coding_id)] IN
         [rs EXCEPT ![ExistingIdx(rs, result.coding_id)] =
             [c \in DOMAIN result |->
                 IF c # "score" /\ c \in DOMAIN old /\ result[c] = None
                 THEN old[c] ELSE result[c]]]
    ELSE Append(rs, result)

\* Mutant: a commit keeps only the record it writes.
KeepOnlyCommitted(rs, result) == <<result>>

\* Mutant: a commit always appends.
AlwaysAppend(rs, result) == Append(rs, result)

UpdateOrAppend(rs, result) ==
    IF ExistingIdx(rs, result.coding_id) # 0
    THEN [rs EXCEPT ![ExistingIdx(rs, result.coding_id)] = result]
    ELSE Append(rs, result)

LockCoderName(coder_name) ==
    IF locked_coder_name = None THEN coder_name ELSE locked_coder_name

LockVariable(variable) ==
    IF locked_variable = None THEN variable ELSE locked_variable

AfterSaveIndex ==
    IF current_index < Len(items) - 1 THEN current_index + 1 ELSE current_index

\* Mutant: a commit does not add the item to coded_ids.
SaveAndContinueForgetsCodedId(typed_name, typed_variable, form, now) ==
    /\ SidebarCoderName(typed_name) # ""
    /\ current_index < Len(items)
    /\ locked_coder_name' = LockCoderName(SidebarCoderName(typed_name))
    /\ locked_variable' = LockVariable(SidebarVariable(typed_variable))
    /\ results' = UpdateOrAppend(results,
                      BuildResult(items[current_index + 1], form, now))
    /\ coded_ids' = coded_ids
    /\ message' = [kind |-> "saved", n |-> Len(results'), loaded |-> 0]
    /\ current_index' = AfterSaveIndex
    /\ loaded_df' = <<>>
    /\ clicked' = "save"
    /\ UNCHANGED <<items, widget_version, download, snapshot>>

\* Mutant: every commit locks the identity typed with it.
SaveAndContinueRelocks(typed_name, typed_variable, form, now) ==
    /\ typed_name # ""
    /\ current_index < Len(items)
    /\ locked_coder_name' = typed_name
    /\ locked_variable' = typed_variable
    /\ results' = UpdateOrAppend(results,
                      BuildResult(items[current_index + 1], form, now))
    /\ coded_ids' = coded_ids \cup {items[current_index + 1]}
    /\ message' = [kind |-> "saved", n |-> Len(results'), loaded |-> 0]
    /\ current_index' = AfterSaveIndex
    /\ loaded_df' = <<>>
    /\ clicked' = "save"
    /\ UNCHANGED <<items, widget_version, download, snapshot>>

SaveAndContinue(typed_name, typed_variable, form, now) ==
    /\ SidebarCoderName(typed_name) # ""
    /\ current_index < Len(items)
    /\ locked_coder_name' = LockCoderName(SidebarCoderName(typed_name))
    /\ locked_variable' = LockVariable(SidebarVariable(typed_variable))
    /\ results' = UpdateOrAppend(results,
                      BuildResult(items[current_index + 1], form, now))
    /\ coded_ids' = coded_ids \cup {items[current_index + 1]}
    /\ message' = [kind |-> "saved", n |-> Len(results'), loaded |-> 0]
    /\ current_index' = AfterSaveIndex
    /\ loaded_df' = <<>>
    /\ clicked' = "save"
    /\ UNCHANGED <<items, widget_version, download, snapshot>>

-----------------------------------------------------------------------------
(* Navigation *)

\* Mutant: the Previous button is not disabled on the first item.
PreviousBelowZero ==
    /\ current_index < Len(items)
    /\ current_index' = current_index - 1
    /\ message' = NoMessage
    /\ loaded_df' = <<>>
    /\ clicked' = "previous"
    /\ UNCHANGED <<items, results, coded_ids, widget_version,
                   locked_coder_name, locked_variable, download, snapshot>>

Previous ==
    /\ current_index < Len(items)
    /\ current_index # 0
    /\ current_index' = current_index - 1
    /\ message' = NoMessage
    /\ loaded_df' = <<>>
    /\ clicked' = "previous"
    /\ UNCHANGED <<items, results, coded_ids, widget_version,
                   locked_coder_name, locked_variable, download, snapshot>>

\* Mutant: the Skip button is not disabled on the last item.
SkipPastLast ==
    /\ current_index < Len(items)
    /\ current_index' = current_index + 1
    /\ message' = NoMessage
    /\ loaded_df' = <<>>
    /\ clicked' = "skip"
    /\ UNCHANGED <<items, results, coded_ids, widget_version,
                   locked_coder_name, locked_variable, download, snapshot>>

Skip ==
    /\ current_index < Len(items)
    /\ current_index # Len(items) - 1
    /\ current_index' = current_index + 1
    /\ message' = NoMessage
    /\ loaded_df' = <<>>
    /\ clicked' = "skip"
    /\ UNCHANGED <<items, results, coded_ids, widget_version,
                   locked_coder_name, locked_variable, download, snapshot>>

\* Mutant: the Jump to box has no min_value and max_value.
GoUnbounded(jump_to) ==
    /\ current_index < Len(items)
    /\ current_index' = jump_to - 1
    /\ message' = NoMessage
    /\ loaded_df' = <<>>
    /\ clicked' = "go"
    /\ UNCHANGED <<items, results, coded_ids, widget_version,
                   locked_coder_name, locked_variable, download, snapshot>>

Go(jump_to) ==
    /\ current_index < Len(items)
    /\ jump_to \in 1..Len(items)
    /\ current_index' = jump_to - 1
    /\ message' = NoMessage
    /\ loaded_df' = <<>>
    /\ clicked' = "go"
    /\ UNCHANGED <<items, results, coded_ids, widget_version,
                   locked_coder_name, locked_variable, download, snapshot>>

ReturnToStart ==
    /\ ~(current_index < Len(items))
    /\ current_index' = 0
    /\ message' = NoMessage
    /\ loaded_df' = <<>>
    /\ clicked' = "return"
    /\ UNCHANGED <<items, results, coded_ids, widget_version,
                   locked_coder_name, locked_variable, download, snapshot>>

-----------------------------------------------------------------------------
(* Resume Session / Load Session *)

\* Mutant: with every item coded the cursor goes one past the last item.
FirstUncodedPastEnd(coding_df, ids) ==
    IF \E idx \in 1..Len(coding_df) : coding_df[idx] \notin ids
    THEN (CHOOSE idx \in 1..Len(coding_df) :
            /\ coding_df[idx] \notin ids
            /\ \A j \in 1..(idx - 1) : coding_df[j] \in ids) - 1
    ELSE Len(coding_df)

FirstUncoded(coding_df, ids) ==
    IF \E idx \in 1..Len(coding_df) : coding_df[idx] \notin ids
    THEN (CHOOSE idx \in 1..Len(coding_df) :
            /\ coding_df[idx] \notin ids
            /\ \A j \in 1..(idx - 1) : coding_df[j] \in ids) - 1
    ELSE Len(coding_df) - 1

\* Mutant: the rows are not filtered by matching_ids.
ValidResultsUnfiltered(resume_df, matching_ids) == resume_df.rows

ValidResults(resume_df, matching_ids) == SelectRows(resume_df.rows, matching_ids)

\* Mutant: a rejected file still invalidates the widgets.
LoadFailedBumpsVersion(v) ==
    /\ message' = [kind |-> v.kind, n |-> v.n, loaded |-> 0]
    /\ loaded_df' = <<>>
    /\ clicked' = "load"
    /\ widget_version' = widget_version + 1
    /\ UNCHANGED <<items, current_index, results, coded_ids,
                   locked_coder_name, locked_variable, download, snapshot>>

LoadFailed(v) ==
    /\ message' = [kind |-> v.kind, n |-> v.n, loaded |-> 0]
    /\ loaded_df' = <<>>
    /\ clicked' = "load"
    /\ UNCHANGED <<items, current_index, results, coded_ids, widget_version,
                   locked_coder_name, locked_variable, download, snapshot>>

\* Mutant: an accepted load does not invalidate the widgets.
LoadAcceptedKeepsVersion(typed_name, typed_variable, resume_df, v) ==
    LET valid_results == ValidResults(resume_df, v.matching_ids) IN
    /\ results' = valid_results
    /\ coded_ids' = {valid_results[i].coding_id : i \in 1..Len(valid_results)}
    /\ IF Len(valid_results) > 0
       THEN /\ locked_coder_name' =
                   Get(valid_results[1], "coder_name", SidebarCoderName(typed_name))
            /\ locked_variable' =
                   Get(valid_results[1], "variable", SidebarVariable(typed_variable))
       ELSE UNCHANGED <<locked_coder_name, locked_variable>>
    /\ widget_version' = widget_version
    /\ current_index' = FirstUncoded(items, coded_ids')
    /\ message' = [kind |-> IF v.kind = "Warning" THEN "loaded_warning" ELSE "loaded",
                   n |-> IF v.kind = "Warning" THEN v.n ELSE 0,
                   loaded |-> Len(valid_results)]
    /\ loaded_df' = <<resume_df>>
    /\ clicked' = "load"
    /\ UNCHANGED <<items, download, snapshot>>

\* Mutant: a lock field that is already set survives the load.
LoadAcceptedKeepsLocks(typed_name, typed_variable, resume_df, v) ==
    LET valid_results == ValidResults(resume_df, v.matching_ids) IN
    /\ results' = valid_results
    /\ coded_ids' = {valid_results[i].coding_id : i \in 1..Len(valid_results)}
    /\ IF Len(valid_results) > 0
       THEN /\ locked_coder_name' =
                   IF locked_coder_name # None THEN locked_coder_name
                   ELSE Get(valid_results[1], "coder_name", SidebarCoderName(typed_name))
            /\ locked_variable' =
                   IF locked_variable # None THEN locked_variable
                   ELSE Get(valid_results[1], "variable", SidebarVariable(typed_variable))
       ELSE UNCHANGED <<locked_coder_name, locked_variable>>
    /\ widget_version' = widget_version + 1
    /\ current_index' = FirstUncoded(items, coded_ids')
    /\ message' = [kind |-> IF v.kind = "Warning" THEN "loaded_warning" ELSE "loaded",
                   n |-> IF v.kind = "Warning" THEN v.n ELSE 0,
                   loaded |-> Len(valid_results)]
    /\ loaded_df' = <<resume_df>>
    /\ clicked' = "load"
    /\ UNCHANGED <<items, download, snapshot>>

LoadAccepted(typed_name, typed_variable, resume_df, v) ==
    LET valid_results == ValidResults(resume_df, v.matching_ids) IN
    /\ results' = valid_results
    /\ coded_ids' = {valid_results[i].coding_id : i \in 1..Len(valid_results)}
    /\ IF Len(valid_results) > 0
       THEN /\ locked_coder_name' =
                   Get(valid_results[1], "coder_name", SidebarCoderName(typed_name))
            /\ locked_variable' =
                   Get(valid_results[1], "variable", SidebarVariable(typed_variable))
       ELSE UNCHANGED <<locked_coder_name, locked_variable>>
    /\ widget_version' = widget_version + 1
    /\ current_index' = FirstUncoded(items, coded_ids')
    /\ message' = [kind |-> IF v.kind = "Warning" THEN "loaded_warning" ELSE "loaded",
                   n |-> IF v.kind = "Warning" THEN v.n ELSE 0,
                   loaded |-> Len(valid_results)]
    /\ loaded_df' = <<resume_df>>
    /\ clicked' = "load"
    /\ UNCHANGED <<items, download, snapshot>>

LoadSession(typed_name, typed_variable, resume_df) ==
    /\ SidebarCoderName(typed_name) # ""
    /\ LET v == validate_resume_csv(resume_df, items) IN
       IF ~v.is_valid
       THEN LoadFailed(v)
       ELSE /\ widget_version < MaxEpoch
            /\ LoadAccepted(typed_name, typed_variable, resume_df, v)

-----------------------------------------------------------------------------
(* Export: get_results_csv, and pd.read_csv of the exported text *)

Digits == <<"0", "1", "2", "3", "4", "5", "6", "7", "8", "9">>

\* The decimal text of the one-digit integers.
IntText(n) == IF n < 0 THEN "-" \o Digits[1 - n] ELSE Digits[n + 1]

IsIntText(text) == \E n \in -9..9 : IntText(n) = text

TextInt(text) == CHOOSE n \in -9..9 : IntText(n) = text

\* The cell texts pd.read_csv reads as a missing value (its default na_values).
NaValues == {"", "NA", "N/A", "NULL", "NaN", "None", "n/a", "nan", "null"}

\* DataFrame.to_csv writes None and NaN as an empty cell; score is the int key.
ToCsvCell(record, column) ==
    IF column \notin DOMAIN record THEN ""
    ELSE IF column = "score" THEN IntText(record[column])
    ELSE IF record[column] \in {None, NaN} THEN ""
    ELSE record[column]

get_results_csv(rs) ==
    LET columns == UNION {DOMAIN rs[i] : i \in 1..Len(rs)} IN
    [columns |-> columns,
     rows |-> [i \in 1..Len(rs) |-> [c \in columns |-> ToCsvCell(rs[i], c)]]]

\* Mutant: read with keep_default_na=False, so no cell becomes NaN.
read_csv_keep_default_na_false(csv) ==
    LET IntColumn(c) ==
            /\ Len(csv.rows) > 0
            /\ \A i \in 1..Len(csv.rows) : IsIntText(csv.rows[i][c])
        Value(i, c) ==
            IF IntColumn(c) THEN TextInt(csv.rows[i][c]) ELSE csv.rows[i][c]
    IN  [columns |-> csv.columns,
         rows |-> [i \in 1..Len(csv.rows) |-> [c \in csv.columns |-> Value(i, c)]]]

\* pd.read_csv: a column whose cells are all integer text is an int column;
\* otherwise a cell is NaN if its text is a missing-value marker, else its text.
read_csv(csv) ==
    LET IntColumn(c) ==
            /\ Len(csv.rows) > 0
            /\ \A i \in 1..Len(csv.rows) : IsIntText(csv.rows[i][c])
        Value(i, c) ==
            IF IntColumn(c) THEN TextInt(csv.rows[i][c])
            ELSE IF csv.rows[i][c] \in NaValues THEN NaN
            ELSE csv.rows[i][c]
    IN  [columns |-> csv.columns,
         rows |-> [i \in 1..Len(csv.rows) |-> [c \in csv.columns |-> Value(i, c)]]]

\* The download button: shown while there are results.
Download ==
    /\ results # <<>>
    /\ download' = <<get_results_csv(results)>>
    /\ snapshot' = results
    /\ message' = NoMessage
    /\ loaded_df' = <<>>
    /\ clicked' = "download"
    /\ UNCHANGED <<items, current_index, results, coded_ids, widget_version,
                   locked_coder_name, locked_variable>>

\* A new browser session over the same item table: initialize_session_state.
NewSession ==
    /\ current_index' = 0
    /\ results' = <<>>
    /\ coded_ids' = {}
    /\ widget_version' = 0
    /\ locked_coder_name' = None
    /\ locked_variable' = None
    /\ message' = NoMessage
    /\ loaded_df' = <<>>
    /\ clicked' = "new"
    /\ UNCHANGED <<items, download, snapshot>>

-----------------------------------------------------------------------------
(* Inputs *)

\* The item tables a session of Spec runs over (an uploaded file with a header
\* and no rows gives the empty table).
ItemLists == {<<>>, <<"Q1", "Q2">>}

Times == {"2024-03-01T10:00:00"}

FormNo ==
    [score |-> 2, cites_data |-> "No", checked |-> <<>>, other_checked |-> FALSE,
     other_text |-> "", information_type |-> "Public Information",
     argument_category |-> "Growth", argument_other_text |-> "", notes |-> ""]

FormYes ==
    [score |-> -3, cites_data |-> "Yes", checked |-> <<"Labor Market">>,
     other_checked |-> TRUE, other_text |-> "survey",
     information_type |-> "Private/Specialized Information",
     argument_category |-> OtherNoGoodMatch, argument_other_text |-> "mixed",
     notes |-> "check"]

\* Other / No Good Match chosen twice and both descriptions left at their
\* default, the empty text.
FormOtherEmpty ==
    [score |-> 0, cites_data |-> "Yes", checked |-> <<>>, other_checked |-> TRUE,
     other_text |-> "", information_type |-> "Public Information",
     argument_category |-> OtherNoGoodMatch, argument_other_text |-> "",
     notes |-> ""]

Forms == {FormNo, FormYes, FormOtherEmpty}

AllColumns ==
    {"coding_id", "coder_name", "variable", "score", "cites_data", "data_categories",
     "data_category_other", "information_type", "argument_category",
     "argument_category_other", "notes", "coded_at"}

\* A row of a results file as pd.read_csv returns it: empty cells are NaN.
Row(coding_id, coder_name, variable, score) ==
    [coding_id |-> coding_id, coder_name |-> coder_name, variable |-> variable,
     score |-> score, cites_data |-> "No", data_categories |-> NaN,
     data_category_other |-> NaN, information_type |-> NaN,
     argument_category |-> "Growth", argument_category_other |-> NaN,
     notes |-> NaN, coded_at |-> "2024-02-01T09:00:00"]

\* A row of a results file that was edited outside the interface: a score the
\* form cannot produce, and data categories on an argument that cites no data.
EditedRow ==
    [Row("Q1", "bob", "Employment", 7) EXCEPT !.data_categories = "Labor Market"]

Rows ==
    {Row("Q1", "ann", "Inflation", 1), EditedRow,
     Row("Q2", "ann", "Inflation", 0), Row("Q5", "ann", "Inflation", 2)}

\* Column sets of uploaded tables that lack a column.
PartialColumnSets ==
    {AllColumns \ {"variable"}, AllColumns \ {"score"}, AllColumns \ {"coding_id"}}

DataFrame(rows, columns) ==
    [columns |-> columns,
     rows |-> [i \in 1..Len(rows) |-> [c \in columns |-> rows[i][c]]]]

RowSeqs(n) == UNION {[1..k -> Rows] : k \in 0..n}

\* A results file with one row for an item and two rows that share a coding_id
\* of no item.
RepeatedUnmatched ==
    DataFrame(<<Row("Q1", "ann", "Inflation", 1), Row("Q5", "ann", "Inflation", 2),
                Row("Q5", "ann", "Inflation", 2)>>, AllColumns)

\* Uploaded resume tables: every table of at most MaxRows rows with all the
\* columns, the tables of at most one row that lack a column, and
\* RepeatedUnmatched.
Tables ==
    {DataFrame(rows, AllColumns) : rows \in RowSeqs(MaxRows)}
    \cup {DataFrame(rows, columns) : rows \in RowSeqs(1), columns \in PartialColumnSets}
    \cup {RepeatedUnmatched}

\* What the coder types in the sidebar while the fields are not locked.
Identities == {<<"ann", "Inflation">>, <<"bob", "Employment">>}

-----------------------------------------------------------------------------
(* Specification *)

Init ==
    /\ items \in ItemLists
    /\ current_index = 0
    /\ results = <<>>
    /\ coded_ids = {}
    /\ widget_version = 0
    /\ locked_coder_name = None
    /\ locked_variable = None
    /\ message = NoMessage
    /\ download = <<>>
    /\ snapshot = <<>>
    /\ loaded_df = <<>>
    /\ clicked = ""

Save == \E id \in Identities, f \in Forms, t \in Times :
            SaveAndContinue(id[1], id[2], f, t)

\* What the coder types in the Jump to box: the item numbers, the numbers next
\* to them, and a number far outside the list.
JumpTargets == (0..(Len(items) + 1)) \cup {10}

Jump == \E jump_to \in JumpTargets : Go(jump_to)

Resume == \E id \in Identities, df \in Tables : LoadSession(id[1], id[2], df)

Next == Save \/ Previous \/ Skip \/ Jump \/ ReturnToStart \/ Resume

Spec == Init /\ [][Next]_vars

-----------------------------------------------------------------------------
(* Export and resume: one session over three items is coded and downloaded;  *)
(* the downloaded file is then loaded, in that session or in a new one.      *)

ExportItems == <<"Q1", "Q2", "Q3">>

ExportIdentities == {<<"ann", "Inflation">>, <<"NA", "Employment">>}

ExportTimes == {"2024-03-01T10:00:00", "2024-03-01T10:05:00"}

InitExport ==
    /\ items = ExportItems
    /\ current_index = 0
    /\ results = <<>>
    /\ coded_ids = {}
    /\ widget_version = 0
    /\ locked_coder_name = None
    /\ locked_variable = None
    /\ message = NoMessage
    /\ download = <<>>
    /\ snapshot = <<>>
    /\ loaded_df = <<>>
    /\ clicked = ""

Coding == download = <<>>

CodingSave ==
    /\ Coding
    /\ \E id \in ExportIdentities, f \in Forms, t \in ExportTimes :
           SaveAndContinue(id[1], id[2], f, t)

CodingPrevious == Coding /\ Previous

CodingSkip == Coding /\ Skip

CodingJump == Coding /\ Jump

CodingDownload == Coding /\ Download

FreshSession == ~Coding /\ NewSession

LoadDownloaded ==
    /\ ~Coding
    /\ \E id \in ExportIdentities : LoadSession(id[1], id[2], read_csv(download[1]))

NextExport ==
    \/ CodingSave \/ CodingPrevious \/ CodingSkip \/ CodingJump \/ CodingDownload
    \/ FreshSession \/ LoadDownloaded

SpecExport == InitExport /\ [][NextExport]_vars

-----------------------------------------------------------------------------
(* Properties of the session engine *)

RecordIds(rs) == {rs[i].coding_id : i \in 1..Len(rs)}

Loaded == message.kind \in {"loaded", "loaded_warning"}

LoadRejected == message.kind \in {"MissingColumns", "NoMatch"}

\* C1: in every reachable state the record set holds at most one record per
\* coding_id, also after a Resume from a table with several rows of one coding_id.
C1_OneRecordPerCodingId ==
    \A i, j \in 1..Len(results) :
        results[i].coding_id = results[j].coding_id => i = j

\* C2: once the session has a record, every record has the same coder_name and
\* the same variable, also after a Resume from a table with mixed identities.
C2_SingleIdentity ==
    \A i, j \in 1..Len(results) :
        /\ results[i].coder_name = results[j].coder_name
        /\ Get(results[i], "variable", None) = Get(results[j], "variable", None)

\* C3: silent coercion. A commit made while the lock fields are unset sets them
\* to the values entered; any other commit leaves them unchanged; the record
\* written carries the locked values whatever was typed; and Save & Continue is
\* enabled for every typed identity whenever an item is displayed.
C3_SilentCoercion ==
    /\ [][\A id \in Identities, f \in Forms, t \in Times :
            SaveAndContinue(id[1], id[2], f, t) =>
                LET r == results'[ExistingIdx(results', items[current_index + 1])] IN
                /\ locked_coder_name' =
                       IF locked_coder_name = None THEN id[1] ELSE locked_coder_name
                /\ locked_variable' =
                       IF locked_variable = None THEN id[2] ELSE locked_variable
                /\ r.coder_name = locked_coder_name'
                /\ r.variable = locked_variable']_vars
    /\ [](current_index < Len(items) =>
            \A id \in Identities :
                ENABLED (\E f \in Forms, t \in Times :
                            SaveAndContinue(id[1], id[2], f, t)))

\* C3 witness: a commit was made with the lock already set to the identity the
\* other coder typed first (two records, both carrying the locked name).
C3_Witness ==
    /\ message.kind = "saved"
    /\ widget_version = 0
    /\ Len(results) = 2
    /\ locked_coder_name = "bob"
    /\ \A i \in 1..Len(results) : results[i].coder_name = "bob"

\* C4: 0 <= position <= len(items) in every reachable state.
C4_CursorInRange == 0 <= current_index /\ current_index <= Len(items)

C4_Witness ==
    /\ Len(items) = 2
    /\ current_index = Len(items) - 1
    /\ message.kind = "saved"
    /\ widget_version = 1

\* C5: Save-and-Continue on the final item leaves position = len(items).
C5_SaveOnLastGoesPastEnd ==
    [][(message'.kind = "saved" /\ current_index = Len(items) - 1)
          => current_index' = Len(items)]_vars

\* C6: validate_resume_csv fails with missing columns iff a required column is
\* absent; otherwise fails with no match iff no coding_id of the table is an
\* item; otherwise succeeds with exactly the common coding_ids.
C6_ValidatorOutcome ==
    \A df \in Tables :
        LET v == validate_resume_csv(df, items)
            lacks == \E c \in {"coding_id", "coder_name", "score"} : c \notin df.columns
            common == {id \in Range(items) :
                          \E i \in 1..Len(df.rows) : df.rows[i].coding_id = id}
        IN  /\ (v.kind = "MissingColumns") <=> lacks
            /\ ~lacks => ((v.kind = "NoMatch") <=> (common = {}))
            /\ v.is_valid <=> (~lacks /\ common # {})
            /\ v.is_valid => v.matching_ids = common

\* C6 witness: the validator has rejected a table for sharing no coding_id with
\* a non-empty item list.
C6_Witness == message.kind = "NoMatch" /\ Len(items) = 2

\* C7: a failed Resume changes no part of the session state, and the session
\* still accepts the actions of the page it shows.
C7_FailedResumeKeepsState ==
    /\ [][message'.kind \in {"MissingColumns", "NoMatch"} => UNCHANGED session]_vars
    /\ [](LoadRejected => ENABLED (Save \/ Previous \/ Skip \/ Jump \/ ReturnToStart))

C7_Witness ==
    /\ message.kind = "MissingColumns"
    /\ Len(results) = 2
    /\ widget_version = 1
    /\ current_index = 0

Count(seq, x) == Cardinality({i \in 1..Len(seq) : seq[i] = x})

\* C8: after a successful Resume the record set is exactly the rows of the table
\* whose coding_id is an item, in the table's order and as many times as the
\* table holds them; nothing else is left in it.
C8_ResumeReplacesRecords ==
    Loaded =>
        LET rows == loaded_df[1].rows
            kept == {i \in 1..Len(rows) : rows[i].coding_id \in Range(items)}
        IN  /\ Len(results) = Cardinality(kept)
            /\ \A x \in Range(rows) \cup Range(results) :
                   Count(results, x) =
                       IF x.coding_id \in Range(items) THEN Count(rows, x) ELSE 0
            /\ \A i, j \in kept :
                   i < j => \E a, b \in 1..Len(results) :
                               a < b /\ results[a] = rows[i] /\ results[b] = rows[j]

\* C8 witness: a table with ids {Q1, Q5} was accepted with a warning over items
\* beginning Q1, Q2: one record, Q1, and the cursor on Q2.
C8_Witness ==
    /\ message = [kind |-> "loaded_warning", n |-> 1, loaded |-> 1]
    /\ {loaded_df[1].rows[i].coding_id : i \in 1..Len(loaded_df[1].rows)} = {"Q1", "Q5"}
    /\ RecordIds(results) = {"Q1"}
    /\ Len(results) = 1
    /\ current_index = 1

\* C9: after a successful Resume the cursor is on the first item without a
\* record, or on the last item if every item has one.
C9_ResumeCursor ==
    Loaded =>
        IF Range(items) \subseteq RecordIds(results)
        THEN current_index = Len(items) - 1
        ELSE /\ current_index \in 0..(Len(items) - 1)
             /\ items[current_index + 1] \notin RecordIds(results)
             /\ \A j \in 1..current_index : items[j] \in RecordIds(results)

\* C9 witness: a Resume accepted records for every item and left the cursor on
\* the last item.
C9_Witness ==
    /\ Loaded
    /\ Range(items) \subseteq RecordIds(results)
    /\ current_index = Len(items) - 1
    /\ Len(items) = 2

\* The three items were all committed before the download, and the downloaded
\* file has been loaded.
ScenarioB ==
    /\ Loaded
    /\ Len(items) = 3
    /\ Len(snapshot) = 3
    /\ RecordIds(snapshot) = Range(items)

\* C10 as stated: after committing all 3 items, exporting and resuming from the
\* export, the cursor is 3 and the 3 records are identical to the originals.
C10_ScenarioB_CursorPastEnd ==
    ScenarioB => (current_index = 3 /\ results = snapshot)

\* What a field of an exported record is after the file is read back: None, empty
\* text and the missing-value markers of pandas come back as NaN, other text as
\* it was.
ReadBack(value) ==
    IF value \in {None, NaN, "", "NA", "N/A", "NULL", "NaN", "None", "n/a", "nan", "null"}
    THEN NaN ELSE value

\* C10 amended: the cursor is 2 (the last item) and there are 3 records, in the
\* original order, each with the original's coding_id and score and with every
\* other field as the original's, None and empty or missing-marker text read
\* back as NaN.
C10_ScenarioB_CursorOnLast ==
    ScenarioB =>
        /\ current_index = 2
        /\ Len(results) = 3
        /\ \A i \in 1..3 :
               /\ DOMAIN results[i] = DOMAIN snapshot[i]
               /\ results[i].coding_id = snapshot[i].coding_id
               /\ results[i].score = snapshot[i].score
               /\ \A c \in DOMAIN snapshot[i] \ {"score"} :
                      results[i][c] = ReadBack(snapshot[i][c])

\* C10 witness: scenario B in a new session, with a record that cited no data
\* (its conditional fields are read back as NaN) and one that did.
C10_Witness ==
    /\ ScenarioB
    /\ current_index = 2
    /\ \E i \in 1..3 : snapshot[i].cites_data = "No" /\ results[i].information_type = NaN
    /\ \E i \in 1..3 : results[i].data_categories = "Labor Market; Other / No Good Match"


-----------------------------------------------------------------------------
(* Round trip, lock fields and record invariants *)

\* A field is absent when it holds None (never filled in) or NaN (an empty cell).
Absent(value) == value \in {None, NaN}

SameField(a, b) == a = b \/ (Absent(a) /\ Absent(b))

\* C11: round trip. After the export of a session reached by commits and
\* navigation is resumed over the same items, the records have the same
\* coding_ids, each with the score and the categorical fields it had at the
\* export (an absent field stays absent), and the lock fields are those of the
\* exported session; timestamps and row order are not compared.
C11_RoundTrip ==
    Loaded =>
        /\ RecordIds(results) = RecordIds(snapshot)
        /\ \A i \in 1..Len(results), j \in 1..Len(snapshot) :
               results[i].coding_id = snapshot[j].coding_id =>
                   /\ results[i].score = snapshot[j].score
                   /\ \A c \in {"cites_data", "data_categories", "information_type",
                                 "argument_category"} :
                          SameField(results[i][c], snapshot[j][c])
        /\ locked_coder_name = snapshot[1].coder_name
        /\ locked_variable = snapshot[1].variable

C13_RecordsWithinItems ==
    /\ Len(results) <= Len(items)
    /\ RecordIds(results) \subseteq Range(items)

\* The category lists a data_categories text can stand for.
CategoryLists ==
    UNION {[1..k -> {"Labor Market", OtherNoGoodMatch}] : k \in 1..2}

\* name is one of the categories joined in text.
Among(name, text) ==
    \E names \in CategoryLists : Join(names) = text /\ name \in Range(names)

\* C14: conditional-field integrity of every record, written by a commit or
\* accepted by a Resume: with cites_data "No" the fields data_categories,
\* data_category_other and information_type are absent; with an
\* argument_category that is not Other, argument_category_other is absent; and
\* data_category_other is present only if Other is among data_categories.
C14_ConditionalFields ==
    \A i \in 1..Len(results) :
        LET r == results[i] IN
        /\ r.cites_data = "No" =>
               /\ Absent(r.data_categories)
               /\ Absent(r.data_category_other)
               /\ Absent(r.information_type)
        /\ r.argument_category # OtherNoGoodMatch => Absent(r.argument_category_other)
        /\ ~Absent(r.data_category_other) => Among(OtherNoGoodMatch, r.data_categories)

\* C16: the score of every record is an integer in [-3, 3], also of a record
\* that entered through a Resume.
C16_ScoreInRange ==
    \A i \in 1..Len(results) : results[i].score \in -3..3

\* A form that lacks a field its branch requires: Other / No Good Match chosen
\* with an empty description.
Incomplete(form) ==
    \/ form.cites_data = "Yes" /\ form.other_checked /\ form.other_text = ""
    \/ form.argument_category = OtherNoGoodMatch /\ form.argument_other_text = ""

\* C15: a commit attempted with an incomplete form is rejected: no record is
\* written or replaced, the coded-id set is unchanged and the cursor does not move.
C15_IncompleteFormRejected ==
    [][\A id \in Identities, f \in Forms, t \in Times :
          (Incomplete(f) /\ SaveAndContinue(id[1], id[2], f, t)) =>
              UNCHANGED <<results, coded_ids, current_index>>]_vars

-----------------------------------------------------------------------------
(* Navigation *)

\* C17: a Jump with a target t in [1, len(items)] is accepted and sets the
\* cursor to t - 1 and changes nothing else of the session; a Jump with a target
\* outside that range (10 on a shorter list, 0, len(items) + 1) is refused: no
\* step is taken, the cursor and the rest of the state stay as they are.
C17_Jump ==
    /\ [][\A t \in JumpTargets :
            Go(t) => /\ t \in 1..Len(items)
                     /\ current_index' = t - 1
                     /\ UNCHANGED <<items, results, coded_ids, widget_version,
                                    locked_coder_name, locked_variable>>]_vars
    /\ [](current_index < Len(items) =>
            \A t \in 1..Len(items) : ENABLED Go(t))
    /\ [](\A t \in JumpTargets \ (1..Len(items)) : ~ENABLED Go(t))

\* C17 witness: with both items coded the coder has jumped from the last item
\* to item 1; the two records are still there.
C17_Witness ==
    /\ clicked = "go"
    /\ current_index = 0
    /\ Len(items) = 2
    /\ Len(results) = 2
    /\ coded_ids = {"Q1", "Q2"}

\* C18: Previous on the first item and Skip on the last item do nothing (the
\* buttons are disabled, no step is taken); Previous at a position p > 0 yields
\* p - 1 and Skip at a position p before the last yields p + 1, and both leave
\* the record set, the coded-id set, the lock fields and the form epoch unchanged.
C18_PreviousSkip ==
    /\ [](current_index = 0 => ~ENABLED Previous)
    /\ [](current_index = Len(items) - 1 => ~ENABLED Skip)
    /\ [](current_index \in 1..(Len(items) - 1) => ENABLED Previous)
    /\ [](current_index \in 0..(Len(items) - 2) => ENABLED Skip)
    /\ [][clicked' = "previous" =>
            /\ current_index > 0
            /\ current_index' = current_index - 1
            /\ UNCHANGED <<items, results, coded_ids, widget_version,
                           locked_coder_name, locked_variable>>]_vars
    /\ [][clicked' = "skip" =>
            /\ current_index < Len(items) - 1
            /\ current_index' = current_index + 1
            /\ UNCHANGED <<items, results, coded_ids, widget_version,
                           locked_coder_name, locked_variable>>]_vars

\* C18 witness: after one commit the coder has skipped from the second item to
\* the third, the last one; the record and the lock are still there.
C18_Witness ==
    /\ clicked = "skip"
    /\ Len(items) = 3
    /\ current_index = 2
    /\ Len(results) = 1
    /\ coded_ids = {"Q1"}
    /\ locked_coder_name = "ann"

-----------------------------------------------------------------------------
(* Recommit *)

\* Records that differ at most in coded_at.
EqualButTime(r, q) ==
    /\ DOMAIN r = DOMAIN q
    /\ \A c \in DOMAIN r \ {"coded_at"} : r[c] = q[c]

\* C19: idempotence of recommit. When the form committed for an item builds the
\* record the item already has (coded_at apart), the record set after the commit
\* has the same number of records and equals the record set before it, record by
\* record, except for coded_at.
C19_RecommitIdempotent ==
    [][clicked' = "save" =>
          LET coding_id == items[current_index + 1]
              k == ExistingIdx(results, coding_id)
          IN  k # 0 =>
              \A f \in Forms, t \in ExportTimes :
                  (/\ EqualButTime(results[k], BuildResult(coding_id, f, t))
                   /\ \E id \in ExportIdentities : SaveAndContinue(id[1], id[2], f, t))
                  => /\ Len(results') = Len(results)
                     /\ \A i \in 1..Len(results) :
                            EqualButTime(results'[i], results[i])
                     /\ coded_ids' = coded_ids]_vars

\* C19 witness: the last step was a commit of Q1 made while the record set
\* already held Q1 and Q2 (the cursor had been returned to Q1); the record set
\* still has the two records in their order, and the record of Q1 carries the
\* later timestamp.
C19_Witness ==
    /\ clicked = "save"
    /\ Len(items) = 3
    /\ current_index = 1
    /\ Len(results) = 2
    /\ results[1].coding_id = "Q1"
    /\ results[2].coding_id = "Q2"
    /\ results[1].coded_at = "2024-03-01T10:05:00"
    /\ results[2].coded_at = "2024-03-01T10:00:00"

-----------------------------------------------------------------------------
(* The warning of a Resume that drops rows *)

\* The number of rows of the table whose coding_id is not an item's.
DroppedRows(resume_df, coding_df) ==
    Cardinality({i \in 1..Len(resume_df.rows) :
                    resume_df.rows[i].coding_id \notin Range(coding_df)})

\* The coding_ids of the table that are not an item's.
UnmatchedIds(resume_df, coding_df) ==
    {resume_df.rows[i].coding_id : i \in 1..Len(resume_df.rows)} \ Range(coding_df)

\* C20 as stated: when a successful Resume drops rows, the warning reports the
\* number of dropped rows, rows that share an unmatched coding_id included.
C20_WarningCountsRows ==
    (Loaded /\ DroppedRows(loaded_df[1], items) > 0) =>
        /\ message.kind = "loaded_warning"
        /\ message.n = DroppedRows(loaded_df[1], items)

\* C20 amended: when a successful Resume drops rows, the warning reports the
\* number of distinct coding_ids of the table that are not in the item list;
\* rows that share an unmatched coding_id are counted once. A Resume that drops
\* no row gives no warning.
C20_WarningCountsIds ==
    Loaded =>
        IF DroppedRows(loaded_df[1], items) > 0
        THEN /\ message.kind = "loaded_warning"
             /\ message.n = Cardinality(UnmatchedIds(loaded_df[1], items))
        ELSE message.kind = "loaded"

\* C20 witness: a Resume kept one row and dropped two rows of one unmatched
\* coding_id; the warning says 1.
C20_Witness ==
    /\ Loaded
    /\ Len(results) = 1
    /\ DroppedRows(loaded_df[1], items) = 2
    /\ message.kind = "loaded_warning"
    /\ message.n = 1

\* C21: a recommit is a full in-place replacement. When the committed item
\* already has a record, the record set keeps its length, the record at the
\* item's place becomes a record built from the form alone (with cites_data "No"
\* its data_categories, data_category_other and information_type are None,
\* whatever the old record held), and the record at every other place is
\* unchanged.
C21_RecommitReplaces ==
    [][clicked' = "save" =>
          LET coding_id == items[current_index + 1]
              k == ExistingIdx(results, coding_id)
          IN  k # 0 =>
              /\ Len(results') = Len(results)
              /\ \E f \in Forms, t \in Times :
                     results'[k] = BuildResult(coding_id, f, t)
              /\ results'[k].cites_data = "No" =>
                     /\ results'[k].data_categories = None
                     /\ results'[k].data_category_other = None
                     /\ results'[k].information_type = None
              /\ \A i \in 1..Len(results) : i # k => results'[i] = results[i]]_vars

\* C21 witness: the row of Q1 that a Resume accepted (coder bob, data
\* categories on an argument that cites no data, notes empty) was recommitted
\* with cites_data "No"; the record has the form's fields and nothing of the row.
C21_Witness ==
    /\ clicked = "save"
    /\ widget_version = 1
    /\ locked_coder_name = "bob"
    /\ current_index = 1
    /\ Len(results) = 1
    /\ results[1].coding_id = "Q1"
    /\ results[1].cites_data = "No"
    /\ results[1].data_categories = None
    /\ results[1].notes = ""
    /\ results[1].coded_at \in Times

-----------------------------------------------------------------------------
(* Lifetime of records, form epoch, coded_ids *)

\* C22: records are never deleted individually. Every step other than a
\* successful Resume (Save & Continue, Skip, Previous, Jump, Return to Start, a
\* failed Resume) keeps a record for every coding_id that had one.
C22_RecordsNeverDeleted ==
    [][~(clicked' = "load" /\ Loaded') =>
          RecordIds(results) \subseteq RecordIds(results')]_vars

\* C22 witness: a Resume was refused after both items had been committed, and
\* both still have their record.
C22_Witness ==
    /\ clicked = "load"
    /\ LoadRejected
    /\ widget_version = 0
    /\ Len(results) = 2
    /\ RecordIds(results) = {"Q1", "Q2"}
    /\ \A i \in 1..2 : results[i].coded_at \in Times

\* C23: the form epoch widget_version starts at 0; each successful Resume
\* increases it by exactly 1, and no other step (Save & Continue, Skip,
\* Previous, Jump, a failed Resume, Return to Start) changes it, so it never
\* decreases.
C23_FormEpoch ==
    /\ widget_version = 0
    /\ [][IF clicked' = "load" /\ Loaded'
          THEN widget_version' = widget_version + 1
          ELSE widget_version' = widget_version]_vars

\* C23 witness: one Resume was accepted and the coder then went back one item;
\* the epoch is 1.
C23_Witness ==
    /\ clicked = "previous"
    /\ widget_version = 1
    /\ current_index = 0
    /\ Len(results) = 1
    /\ results[1].coded_at \notin Times

\* C24: in every reachable state coded_ids is the set of the coding_ids of the
\* records in results: the progress count is the number of distinct coded items,
\* and an item is shown as coded exactly when it has a record.
C24_CodedIdsAreRecordIds ==
    /\ coded_ids = RecordIds(results)
    /\ \A i \in 1..Len(items) :
           items[i] \in coded_ids <=> ExistingIdx(results, items[i]) # 0

\* C24 witness: a Resume accepted two rows of Q1 and Q2 was then committed:
\* three records, two coded items.
C24_Witness ==
    /\ clicked = "save"
    /\ Len(results) = 3
    /\ results[1].coding_id = "Q1"
    /\ results[2].coding_id = "Q1"
    /\ results[3].coding_id = "Q2"
    /\ Cardinality(coded_ids) = 2

=============================================================================
